---- MODULE Spec2Model ----
(***************************************************************************)
(* Model of the Symbolic Controller of the legal intake assistant: the     *)
(* case file (record), the completeness evaluator and resolver of          *)
(* services/stateLogic.ts, the fast-path turn of App.handleSendMessage /   *)
(* geminiService.processTurn and the background audit of App.performAudit. *)
(***************************************************************************)
EXTENDS Integers, Sequences, FiniteSets, TLC

(***************************************************************************)
(* JavaScript values.  Every value is a tagged record so that values of    *)
(* different JavaScript types can be compared.                             *)
(***************************************************************************)
Null == [t |-> "null"]
Undefined == [t |-> "undefined"]
Bool(b) == [t |-> "boolean", b |-> b]
Str(s) == [t |-> "string", s |-> s]
Num(n) == [t |-> "number", n |-> n]
Obj(o) == [t |-> "object", o |-> o]

\* JavaScript truthiness (the operand of `!`, `if (x)`).
Truthy(v) ==
  CASE v.t = "null" -> FALSE
    [] v.t = "undefined" -> FALSE
    [] v.t = "boolean" -> v.b
    [] v.t = "string" -> v.s # << >>
    [] v.t = "number" -> v.n # 0
    [] OTHER -> TRUE

\* value.member : member access on a stored value; a missing key reads as
\* undefined, as does a member of a primitive.
Member(v, k) ==
  IF v.t = "object" /\ k \in DOMAIN v.o THEN v.o[k] ELSE Undefined

(***************************************************************************)
(* Strings are sequences of one-character strings.                         *)
(***************************************************************************)
UpperChars == << "A","B","C","D","E","F","G","H","I","J","K","L","M",
                 "N","O","P","Q","R","S","T","U","V","W","X","Y","Z" >>
LowerChars == << "a","b","c","d","e","f","g","h","i","j","k","l","m",
                 "n","o","p","q","r","s","t","u","v","w","x","y","z" >>

toLowerCaseChar(c) ==
  IF \E i \in 1..Len(UpperChars) : UpperChars[i] = c
    THEN LowerChars[CHOOSE i \in 1..Len(UpperChars) : UpperChars[i] = c]
    ELSE c

\* String.prototype.toLowerCase
toLowerCase(s) == [i \in 1..Len(s) |-> toLowerCaseChar(s[i])]

IsSpace(c) == c = " "

RECURSIVE trimStart(_)
trimStart(s) ==
  IF s # << >> /\ IsSpace(Head(s)) THEN trimStart(Tail(s)) ELSE s

RECURSIVE trimEnd(_)
trimEnd(s) ==
  IF s # << >> /\ IsSpace(s[Len(s)]) THEN trimEnd(SubSeq(s, 1, Len(s) - 1)) ELSE s

\* String.prototype.trim
trim(s) == trimEnd(trimStart(s))

\* Number of whitespace-separated tokens of s (value.trim().split(/\s+/)).
TokenCount(s) ==
  Cardinality({ i \in 1..Len(s) :
                  /\ ~IsSpace(s[i])
                  /\ (i = 1 \/ IsSpace(s[i - 1])) })

(***************************************************************************)
(* constants.ts                                                            *)
(***************************************************************************)
MOCK_CLIENT_DB ==
  << << "J","o","h","n"," ","D","o","e" >>,
     << "S","a","r","a","h"," ","C","o","n","n","o","r" >>,
     << "K","y","l","e"," ","R","e","e","s","e" >>,
     << "C","y","b","e","r","d","y","n","e"," ","S","y","s","t","e","m","s" >>,
     << "T","-","8","0","0" >> >>

INTAKE_STEPS ==
  << [id |-> "contact.full_name", label |-> "Full Name", vector |-> "Contact"],
     [id |-> "contact.email", label |-> "Email Address", vector |-> "Contact"],
     [id |-> "admin.prior_representation", label |-> "Prior Representation", vector |-> "Administrative"],
     [id |-> "admin.conflict_party", label |-> "Conflict Check", vector |-> "Administrative"],
     [id |-> "incident.accident_date", label |-> "Accident Date", vector |-> "Incident"],
     [id |-> "incident.accident_time", label |-> "Accident Time", vector |-> "Incident"],
     [id |-> "incident.location_jurisdiction", label |-> "Location", vector |-> "Incident"],
     [id |-> "incident.weather_conditions", label |-> "Weather Conditions", vector |-> "Incident"],
     [id |-> "incident.vehicle_description", label |-> "Vehicle Description", vector |-> "Incident"],
     [id |-> "incident.police_report_filed", label |-> "Police Report", vector |-> "Incident"],
     [id |-> "liability.claimant_role", label |-> "Claimant Role", vector |-> "Liability"],
     [id |-> "liability.fault_admission", label |-> "Fault Admission", vector |-> "Liability"],
     [id |-> "liability.citation_issued", label |-> "Citations Issued", vector |-> "Liability"],
     [id |-> "liability.witness_presence", label |-> "Witnesses", vector |-> "Liability"],
     [id |-> "damages.injury_details", label |-> "Injuries", vector |-> "Damages"],
     [id |-> "damages.medical_treatment", label |-> "Medical Treatment", vector |-> "Damages"],
     [id |-> "damages.hospitalization_details", label |-> "Hospitalization", vector |-> "Damages"],
     [id |-> "damages.lost_wages_details", label |-> "Lost Wages", vector |-> "Damages"],
     [id |-> "admin.insurance_status", label |-> "Insurance Status", vector |-> "Administrative"] >>

INITIAL_CASE_FILE ==
  [ case_id |-> "CASE-INIT",
    status |-> "QUALIFICATION",
    rejection_reason |-> Undefined,
    contact |-> [ full_name |-> Null, phone_number |-> Null, email |-> Null ],
    incident |-> [ accident_date |-> Null, accident_time |-> Null,
                   location_jurisdiction |-> Null, police_report_filed |-> Null,
                   weather_conditions |-> Null, vehicle_description |-> Null ],
    liability |-> [ fault_admission |-> Obj([status |-> Null, statement |-> Null]),
                    citation_issued |-> Null, witness_presence |-> Null,
                    claimant_role |-> Null ],
    damages |-> [ injury_details |-> Obj([has_injury |-> Null, description |-> Null]),
                  medical_treatment |-> Null,
                  hospitalization_details |-> Obj([was_hospitalized |-> Null, duration |-> Null]),
                  lost_wages_details |-> Obj([has_lost_wages |-> Null, amount |-> Null]) ],
    admin |-> [ insurance_status |-> Null, prior_representation |-> Null,
                conflict_party |-> Null ] ]

VectorKeys == { "contact", "incident", "liability", "damages", "admin" }

\* step.id.split('.') : the vector key and the field key of a slot id.
split(id) ==
  CASE id = "contact.full_name" -> << "contact", "full_name" >>
    [] id = "contact.email" -> << "contact", "email" >>
    [] id = "contact.phone_number" -> << "contact", "phone_number" >>
    [] id = "admin.prior_representation" -> << "admin", "prior_representation" >>
    [] id = "admin.conflict_party" -> << "admin", "conflict_party" >>
    [] id = "incident.accident_date" -> << "incident", "accident_date" >>
    [] id = "incident.accident_time" -> << "incident", "accident_time" >>
    [] id = "incident.location_jurisdiction" -> << "incident", "location_jurisdiction" >>
    [] id = "incident.weather_conditions" -> << "incident", "weather_conditions" >>
    [] id = "incident.vehicle_description" -> << "incident", "vehicle_description" >>
    [] id = "incident.police_report_filed" -> << "incident", "police_report_filed" >>
    [] id = "liability.claimant_role" -> << "liability", "claimant_role" >>
    [] id = "liability.fault_admission" -> << "liability", "fault_admission" >>
    [] id = "liability.citation_issued" -> << "liability", "citation_issued" >>
    [] id = "liability.witness_presence" -> << "liability", "witness_presence" >>
    [] id = "damages.injury_details" -> << "damages", "injury_details" >>
    [] id = "damages.medical_treatment" -> << "damages", "medical_treatment" >>
    [] id = "damages.hospitalization_details" -> << "damages", "hospitalization_details" >>
    [] id = "damages.lost_wages_details" -> << "damages", "lost_wages_details" >>
    [] id = "admin.insurance_status" -> << "admin", "insurance_status" >>

(***************************************************************************)
(* services/stateLogic.ts                                                  *)
(***************************************************************************)
\* isFieldComplete without the `discriminator === null` test of the
\* hospitalization struct.
isFieldComplete_NoNullDiscriminator(fieldId, value) ==
  IF value = Null THEN FALSE
  ELSE IF fieldId = "liability.fault_admission" THEN
    IF Member(value, "status") = Null THEN FALSE
    ELSE IF Member(value, "status") = Str(<< "Y","e","s" >>)
            /\ ~Truthy(Member(value, "statement")) THEN FALSE
    ELSE TRUE
  ELSE IF fieldId = "damages.injury_details" THEN
    IF Member(value, "has_injury") = Null THEN FALSE
    ELSE IF Member(value, "has_injury") = Bool(TRUE)
            /\ ~Truthy(Member(value, "description")) THEN FALSE
    ELSE TRUE
  ELSE IF fieldId = "damages.hospitalization_details" THEN
    IF Member(value, "was_hospitalized") = Bool(TRUE)
       /\ ~Truthy(Member(value, "duration")) THEN FALSE
    ELSE TRUE
  ELSE IF fieldId = "damages.lost_wages_details" THEN
    IF Member(value, "has_lost_wages") = Null THEN FALSE
    ELSE IF Member(value, "has_lost_wages") = Bool(TRUE)
            /\ (Member(value, "amount") = Null \/ Member(value, "amount") = Num(0)) THEN FALSE
    ELSE TRUE
  ELSE TRUE

\* isFieldComplete with the dependent of the injury struct tested against
\* null only, so that an empty description counts as given.
isFieldComplete_EmptyDependent(fieldId, value) ==
  IF value = Null THEN FALSE
  ELSE IF fieldId = "liability.fault_admission" THEN
    IF Member(value, "status") = Null THEN FALSE
    ELSE IF Member(value, "status") = Str(<< "Y","e","s" >>)
            /\ ~Truthy(Member(value, "statement")) THEN FALSE
    ELSE TRUE
  ELSE IF fieldId = "damages.injury_details" THEN
    IF Member(value, "has_injury") = Null THEN FALSE
    ELSE IF Member(value, "has_injury") = Bool(TRUE)
            /\ Member(value, "description") = Null THEN FALSE
    ELSE TRUE
  ELSE IF fieldId = "damages.hospitalization_details" THEN
    IF Member(value, "was_hospitalized") = Null THEN FALSE
    ELSE IF Member(value, "was_hospitalized") = Bool(TRUE)
            /\ ~Truthy(Member(value, "duration")) THEN FALSE
    ELSE TRUE
  ELSE IF fieldId = "damages.lost_wages_details" THEN
    IF Member(value, "has_lost_wages") = Null THEN FALSE
    ELSE IF Member(value, "has_lost_wages") = Bool(TRUE)
            /\ (Member(value, "amount") = Null \/ Member(value, "amount") = Num(0)) THEN FALSE
    ELSE TRUE
  ELSE TRUE

\* isFieldComplete with the amount of the lost-wages struct tested against
\* null only, so that 0 counts as an amount.
isFieldComplete_ZeroIsValue(fieldId, value) ==
  IF value = Null THEN FALSE
  ELSE IF fieldId = "liability.fault_admission" THEN
    IF Member(value, "status") = Null THEN FALSE
    ELSE IF Member(value, "status") = Str(<< "Y","e","s" >>)
            /\ ~Truthy(Member(value, "statement")) THEN FALSE
    ELSE TRUE
  ELSE IF fieldId = "damages.injury_details" THEN
    IF Member(value, "has_injury") = Null THEN FALSE
    ELSE IF Member(value, "has_injury") = Bool(TRUE)
            /\ ~Truthy(Member(value, "description")) THEN FALSE
    ELSE TRUE
  ELSE IF fieldId = "damages.hospitalization_details" THEN
    IF Member(value, "was_hospitalized") = Null THEN FALSE
    ELSE IF Member(value, "was_hospitalized") = Bool(TRUE)
            /\ ~Truthy(Member(value, "duration")) THEN FALSE
    ELSE TRUE
  ELSE IF fieldId = "damages.lost_wages_details" THEN
    IF Member(value, "has_lost_wages") = Null THEN FALSE
    ELSE IF Member(value, "has_lost_wages") = Bool(TRUE)
            /\ Member(value, "amount") = Null THEN FALSE
    ELSE TRUE
  ELSE TRUE

\* isFieldComplete(fieldId, value)
isFieldComplete(fieldId, value) ==
  IF value = Null THEN FALSE
  ELSE IF fieldId = "liability.fault_admission" THEN
    IF Member(value, "status") = Null THEN FALSE
    ELSE IF Member(value, "status") = Str(<< "Y","e","s" >>)
            /\ ~Truthy(Member(value, "statement")) THEN FALSE
    ELSE TRUE
  ELSE IF fieldId = "damages.injury_details" THEN
    IF Member(value, "has_injury") = Null THEN FALSE
    ELSE IF Member(value, "has_injury") = Bool(TRUE)
            /\ ~Truthy(Member(value, "description")) THEN FALSE
    ELSE TRUE
  ELSE IF fieldId = "damages.hospitalization_details" THEN
    IF Member(value, "was_hospitalized") = Null THEN FALSE
    ELSE IF Member(value, "was_hospitalized") = Bool(TRUE)
            /\ ~Truthy(Member(value, "duration")) THEN FALSE
    ELSE TRUE
  ELSE IF fieldId = "damages.lost_wages_details" THEN
    IF Member(value, "has_lost_wages") = Null THEN FALSE
    ELSE IF Member(value, "has_lost_wages") = Bool(TRUE)
            /\ (Member(value, "amount") = Null \/ Member(value, "amount") = Num(0)) THEN FALSE
    ELSE TRUE
  ELSE TRUE

\* vector[fieldKey] for the slot `id` of a case file.
FieldValue(cf, id) == cf[split(id)[1]][split(id)[2]]

\* The scan without its early return: the last incomplete entry wins.
RECURSIVE ScanFrom_NoEarlyReturn(_, _)
ScanFrom_NoEarlyReturn(cf, i) ==
  IF i > Len(INTAKE_STEPS) THEN 0
  ELSE LET later == ScanFrom_NoEarlyReturn(cf, i + 1)
       IN IF later # 0 THEN later
          ELSE IF ~isFieldComplete(INTAKE_STEPS[i].id, FieldValue(cf, INTAKE_STEPS[i].id)) THEN i
          ELSE 0

\* The scan with a loop bound that leaves out the last registry entry.
RECURSIVE ScanFrom_SkipsLast(_, _)
ScanFrom_SkipsLast(cf, i) ==
  IF i >= Len(INTAKE_STEPS) THEN 0
  ELSE IF ~isFieldComplete(INTAKE_STEPS[i].id, FieldValue(cf, INTAKE_STEPS[i].id)) THEN i
  ELSE ScanFrom_SkipsLast(cf, i + 1)

\* The scan starting at the second registry entry.
RECURSIVE ScanFrom_SkipsFirst(_, _)
ScanFrom_SkipsFirst(cf, i) ==
  IF i > Len(INTAKE_STEPS) THEN 0
  ELSE IF i > 1 /\ ~isFieldComplete(INTAKE_STEPS[i].id, FieldValue(cf, INTAKE_STEPS[i].id)) THEN i
  ELSE ScanFrom_SkipsFirst(cf, i + 1)

\* The index of the first registry entry at or after i that is incomplete,
\* or 0 when the scan runs off the end of INTAKE_STEPS.
RECURSIVE ScanFrom(_, _)
ScanFrom(cf, i) ==
  IF i > Len(INTAKE_STEPS) THEN 0
  ELSE IF ~isFieldComplete(INTAKE_STEPS[i].id, FieldValue(cf, INTAKE_STEPS[i].id)) THEN i
  ELSE ScanFrom(cf, i + 1)

\* getNextMissingSlot with the two gates in the opposite order.
getNextMissingSlot_StatusFirst(cf) ==
  IF cf.status = "REJECTED" THEN "REJECTED_GENERIC"
  ELSE IF cf.admin.prior_representation = Bool(TRUE) THEN "REJECT_PRIOR_REP"
  ELSE IF ScanFrom(cf, 1) = 0 THEN "COMPLETE"
  ELSE INTAKE_STEPS[ScanFrom(cf, 1)].id

\* getNextMissingSlot without the kill switch of RULE 1.
getNextMissingSlot_NoKillSwitch(cf) ==
  IF cf.status = "REJECTED" THEN "REJECTED_GENERIC"
  ELSE IF ScanFrom(cf, 1) = 0 THEN "COMPLETE"
  ELSE INTAKE_STEPS[ScanFrom(cf, 1)].id

\* getNextMissingSlot with RULE 2 tested only after the scan found nothing.
getNextMissingSlot_ScanBeforeStatus(cf) ==
  IF cf.admin.prior_representation = Bool(TRUE) THEN "REJECT_PRIOR_REP"
  ELSE IF ScanFrom(cf, 1) # 0 THEN INTAKE_STEPS[ScanFrom(cf, 1)].id
  ELSE IF cf.status = "REJECTED" THEN "REJECTED_GENERIC"
  ELSE "COMPLETE"

\* The Resolver treating the closing statuses as outcomes of their own.
getNextMissingSlot_StatusIsOutcome(cf) ==
  IF cf.admin.prior_representation = Bool(TRUE) THEN "REJECT_PRIOR_REP"
  ELSE IF cf.status = "REJECTED" THEN "REJECTED_GENERIC"
  ELSE IF cf.status \in { "REFERRED", "CLOSED" } THEN cf.status
  ELSE IF ScanFrom(cf, 1) = 0 THEN "COMPLETE"
  ELSE INTAKE_STEPS[ScanFrom(cf, 1)].id

\* getNextMissingSlot(caseFile)
getNextMissingSlot(cf) ==
  IF cf.admin.prior_representation = Bool(TRUE) THEN "REJECT_PRIOR_REP"
  ELSE IF cf.status = "REJECTED" THEN "REJECTED_GENERIC"
  ELSE IF ScanFrom(cf, 1) = 0 THEN "COMPLETE"
  ELSE INTAKE_STEPS[ScanFrom(cf, 1)].id

\* getNextNMissingSlots(caseFile, n): the ids of the first n incomplete
\* registry entries, in registry order, under isFieldComplete.
RECURSIVE CollectFrom(_, _, _)
CollectFrom(cf, i, n) ==
  IF n = 0 \/ i > Len(INTAKE_STEPS) THEN << >>
  ELSE IF ~isFieldComplete(INTAKE_STEPS[i].id, FieldValue(cf, INTAKE_STEPS[i].id))
    THEN << INTAKE_STEPS[i].id >> \o CollectFrom(cf, i + 1, n - 1)
  ELSE CollectFrom(cf, i + 1, n)

getNextNMissingSlots(cf, n) == CollectFrom(cf, 1, n)

\* validateField(slotId, value): the structural rule of a field.  A null
\* candidate carries no value and passes.
validateField(slotId, value) ==
  IF value = Null THEN TRUE
  ELSE IF slotId = "contact.full_name" THEN
    value.t = "string" /\ TokenCount(value.s) >= 2
  ELSE IF slotId = "incident.location_jurisdiction" THEN
    value.t = "string" /\ TokenCount(value.s) >= 2
  ELSE IF slotId = "liability.claimant_role" THEN
    value \in { Str(<< "D","r","i","v","e","r" >>),
                Str(<< "P","a","s","s","e","n","g","e","r" >>),
                Str(<< "P","e","d","e","s","t","r","i","a","n" >>) }
  ELSE IF slotId = "liability.fault_admission" THEN
    Member(value, "status") \in { Undefined, Null, Str(<< "Y","e","s" >>),
                                  Str(<< "N","o" >>),
                                  Str(<< "U","n","k","n","o","w","n" >>) }
  ELSE IF slotId = "damages.lost_wages_details" THEN
    Member(value, "amount").t = "number" => Member(value, "amount").n >= 0
  ELSE TRUE

(***************************************************************************)
(* services/geminiService.ts                                               *)
(***************************************************************************)
\* checkConflictInDb without the trim of the input.
checkConflictInDb_NoTrim(name) ==
  IF ~Truthy(name) THEN FALSE
  ELSE \E i \in 1..Len(MOCK_CLIENT_DB) :
         toLowerCase(MOCK_CLIENT_DB[i]) = toLowerCase(name.s)

\* checkConflictInDb(name)
checkConflictInDb(name) ==
  IF ~Truthy(name) THEN FALSE
  ELSE \E i \in 1..Len(MOCK_CLIENT_DB) :
         toLowerCase(MOCK_CLIENT_DB[i]) = trim(toLowerCase(name.s))

\* The empty object {}.
EmptyObject == [k \in {} |-> Null]

\* A replacement instead of a union: the keys b does not name are reset.
Spread_Replace(a, b) ==
  [k \in (DOMAIN a) \cup (DOMAIN b) |-> IF k \in DOMAIN b THEN b[k] ELSE Null]

\* { ...a, ...b } : object spread, the keys of b override those of a.
Spread(a, b) ==
  [k \in (DOMAIN a) \cup (DOMAIN b) |-> IF k \in DOMAIN b THEN b[k] ELSE a[k]]

\* The mapping with the validation test inverted: the keys that fail
\* validateField are the ones kept.
nestedExtraction_InvertedTest(flatData) ==
  LET kept == { k \in DOMAIN flatData : ~validateField(k, flatData[k]) }
      vecs == { split(k)[1] : k \in kept }
  IN [v \in vecs |->
        [f \in { split(k)[2] : k \in { x \in kept : split(x)[1] = v } } |->
           flatData[CHOOSE k \in kept : split(k) = << v, f >>]]]

\* The mapping without the symbolic validation layer: every key is kept.
nestedExtraction_NoValidation(flatData) ==
  LET kept == DOMAIN flatData
      vecs == { split(k)[1] : k \in kept }
  IN [v \in vecs |->
        [f \in { split(k)[2] : k \in { x \in kept : split(x)[1] = v } } |->
           flatData[CHOOSE k \in kept : split(k) = << v, f >>]]]

\* The flat keys of flatData that pass validateField, in nested form
\* (the forEach over Object.entries(flatData)).
nestedExtraction(flatData) ==
  LET kept == { k \in DOMAIN flatData : validateField(k, flatData[k]) }
      vecs == { split(k)[1] : k \in kept }
  IN [v \in vecs |->
        [f \in { split(k)[2] : k \in { x \in kept : split(x)[1] = v } } |->
           flatData[CHOOSE k \in kept : split(k) = << v, f >>]]]

\* processTurn: the extracted_data for the parsed oracle output flatData
\* (response_text already removed), including the symbolic conflict check.
processTurn(flatData) ==
  LET nested == nestedExtraction(flatData)
      hasParty == "admin.conflict_party" \in DOMAIN flatData
      party == IF hasParty THEN flatData["admin.conflict_party"] ELSE Undefined
  IN IF Truthy(party) /\ checkConflictInDb(party)
       THEN Spread(nested,
                   [k \in {"status", "admin"} |->
                      IF k = "status" THEN "REJECTED"
                      ELSE Spread(IF "admin" \in DOMAIN nested THEN nested.admin ELSE EmptyObject,
                                  [conflict_party |-> party])])
       ELSE nested

\* The conflict branch of processTurn is taken for flatData.
IsConflict(flatData) ==
  /\ "admin.conflict_party" \in DOMAIN flatData
  /\ Truthy(flatData["admin.conflict_party"])
  /\ checkConflictInDb(flatData["admin.conflict_party"])

(***************************************************************************)
(* services/schemaBuilder.ts                                               *)
(***************************************************************************)
SCHEMA_DEFINITIONS ==
  [ contact |->
      [ type |-> "OBJECT",
        properties |-> [ full_name |-> [type |-> "STRING"],
                         email |-> [type |-> "STRING"] ] ],
    incident |->
      [ type |-> "OBJECT",
        properties |-> [ accident_date |-> [type |-> "STRING"],
                         accident_time |-> [type |-> "STRING"],
                         location_jurisdiction |-> [type |-> "STRING"],
                         police_report_filed |-> [type |-> "BOOLEAN"],
                         weather_conditions |-> [type |-> "STRING"],
                         vehicle_description |-> [type |-> "STRING"] ] ],
    liability |->
      [ type |-> "OBJECT",
        properties |->
          [ fault_admission |->
              [ type |-> "OBJECT",
                properties |-> [ status |-> [type |-> "STRING",
                                             enum |-> << "Yes", "No", "Unknown" >>],
                                 statement |-> [type |-> "STRING"] ] ],
            citation_issued |-> [type |-> "BOOLEAN"],
            witness_presence |-> [type |-> "BOOLEAN"],
            claimant_role |-> [type |-> "STRING",
                               enum |-> << "Driver", "Passenger", "Pedestrian" >>] ] ],
    damages |->
      [ type |-> "OBJECT",
        properties |->
          [ injury_details |->
              [ type |-> "OBJECT",
                properties |-> [ has_injury |-> [type |-> "BOOLEAN"],
                                 description |-> [type |-> "STRING"] ] ],
            medical_treatment |-> [type |-> "BOOLEAN"],
            hospitalization_details |->
              [ type |-> "OBJECT",
                properties |-> [ was_hospitalized |-> [type |-> "BOOLEAN"],
                                 duration |-> [type |-> "STRING"] ] ],
            lost_wages_details |->
              [ type |-> "OBJECT",
                properties |-> [ has_lost_wages |-> [type |-> "BOOLEAN"],
                                 amount |-> [type |-> "NUMBER"] ] ] ] ],
    admin |->
      [ type |-> "OBJECT",
        properties |-> [ insurance_status |-> [type |-> "BOOLEAN"],
                         prior_representation |-> [type |-> "BOOLEAN"],
                         conflict_party |-> [type |-> "STRING"] ] ] ]

\* The master definition copied as it is, without nullable.
fieldDef_NotNullable(master) == master

\* { ...masterVector.properties[fieldKey], nullable: true }
fieldDef(master) == Spread(master, [nullable |-> TRUE])

\* missingSlots.forEach: the properties and the required list after the
\* slots of `slots` have been injected into props and requiredFields.
RECURSIVE InjectSlots(_, _, _)
InjectSlots(props, requiredFields, slots) ==
  IF slots = << >> THEN [ properties |-> props, required |-> requiredFields ]
  ELSE LET slotId == Head(slots)
           vectorKey == split(slotId)[1]
           fieldKey == split(slotId)[2]
       IN IF /\ vectorKey \in DOMAIN SCHEMA_DEFINITIONS
             /\ fieldKey \in DOMAIN SCHEMA_DEFINITIONS[vectorKey].properties
            THEN InjectSlots(
                   [k \in (DOMAIN props) \cup { slotId } |->
                      IF k = slotId
                        THEN fieldDef(SCHEMA_DEFINITIONS[vectorKey].properties[fieldKey])
                        ELSE props[k]],
                   Append(requiredFields, slotId),
                   Tail(slots))
            ELSE InjectSlots(props, requiredFields, Tail(slots))

\* generateScopedSchema(missingSlots)
generateScopedSchema(missingSlots) ==
  LET injected == InjectSlots([k \in { "response_text" } |-> [type |-> "STRING"]],
                              << "response_text" >>, missingSlots)
  IN [ type |-> "OBJECT",
       properties |-> injected.properties,
       required |-> injected.required ]

(***************************************************************************)
(* App.tsx                                                                 *)
(***************************************************************************)
\* `if (data.v)`: the patch names vector v with a non-null object.
HasVector(data, v) == v \in DOMAIN data /\ data[v] # Null

\* One vector of the merged record: { ...updated.v, ...data.v }.
MergeVector(prev, data, v) ==
  IF HasVector(data, v) THEN Spread(prev[v], data[v]) ELSE prev[v]

\* The fast-path updater without its `if (data.status)` line.
FastMerge_NoStatus(prev, data) ==
  [ prev EXCEPT !.contact = MergeVector(prev, data, "contact"),
                !.incident = MergeVector(prev, data, "incident"),
                !.liability = MergeVector(prev, data, "liability"),
                !.damages = MergeVector(prev, data, "damages"),
                !.admin = MergeVector(prev, data, "admin") ]

\* The fast-path updater moving the session to INTAKE whenever the patch
\* carries no status of its own.
FastMerge_ResetStatus(prev, data) ==
  [ prev EXCEPT !.contact = MergeVector(prev, data, "contact"),
                !.incident = MergeVector(prev, data, "incident"),
                !.liability = MergeVector(prev, data, "liability"),
                !.damages = MergeVector(prev, data, "damages"),
                !.admin = MergeVector(prev, data, "admin"),
                !.status = IF "status" \in DOMAIN data THEN data.status ELSE "INTAKE" ]

\* The updater handed to setCaseFile in handleSendMessage.
FastMerge(prev, data) ==
  [ prev EXCEPT !.contact = MergeVector(prev, data, "contact"),
                !.incident = MergeVector(prev, data, "incident"),
                !.liability = MergeVector(prev, data, "liability"),
                !.damages = MergeVector(prev, data, "damages"),
                !.admin = MergeVector(prev, data, "admin"),
                !.status = IF "status" \in DOMAIN data THEN data.status ELSE @ ]

\* The audit updater re-opening the session when the auditor corrects the
\* admin vector.
AuditMerge_ReopensCase(prev, patches) ==
  [ prev EXCEPT !.contact = MergeVector(prev, patches, "contact"),
                !.incident = MergeVector(prev, patches, "incident"),
                !.damages = MergeVector(prev, patches, "damages"),
                !.liability = MergeVector(prev, patches, "liability"),
                !.admin = MergeVector(prev, patches, "admin"),
                !.status = IF HasVector(patches, "admin") THEN "INTAKE" ELSE @ ]

\* The audit updater skipping the members the correction sets to null.
AuditMerge_IgnoresNull(prev, patches) ==
  LET NonNull(v) == [f \in { x \in DOMAIN patches[v] : patches[v][x] # Null } |-> patches[v][f]]
      Vec(v) == IF HasVector(patches, v) THEN Spread(prev[v], NonNull(v)) ELSE prev[v]
  IN [ prev EXCEPT !.contact = Vec("contact"),
                   !.incident = Vec("incident"),
                   !.damages = Vec("damages"),
                   !.liability = Vec("liability"),
                   !.admin = Vec("admin") ]

\* The updater handed to setCaseFile in performAudit.
AuditMerge(prev, patches) ==
  [ prev EXCEPT !.contact = MergeVector(prev, patches, "contact"),
                !.incident = MergeVector(prev, patches, "incident"),
                !.damages = MergeVector(prev, patches, "damages"),
                !.liability = MergeVector(prev, patches, "liability"),
                !.admin = MergeVector(prev, patches, "admin") ]

(***************************************************************************)
(* Bounds and the outputs the two oracles are drawn from.                  *)
(***************************************************************************)
\* Number of user turns of a session.
MaxTurns == 2

\* processTurn asks getNextNMissingSlots for this many slots.
SlotWindow == 3

\* Length of the slot lists generateScopedSchema is applied to.
MaxSlots == 3

JaneRoe == << "J","a","n","e"," ","R","o","e" >>
John == << "J","o","h","n" >>
JohnDoeSpaced == << " ","j","O","H","N"," ","d","o","e"," " >>
BobRay == << "B","o","b"," ","R","a","y" >>
EmailAB == << "a","@","b",".","c","o","m" >>
Yes == << "Y","e","s" >>
No == << "N","o" >>
Driver == << "D","r","i","v","e","r" >>
Austin == << "A","u","s","t","i","n"," ","T","X" >>
Text == << "x" >>

SlotIds == { INTAKE_STEPS[i].id : i \in 1..Len(INTAKE_STEPS) }

BooleanSlots == { "incident.police_report_filed", "liability.citation_issued",
                  "liability.witness_presence", "damages.medical_treatment",
                  "admin.insurance_status" }

\* The values the extraction oracle may give for a requested slot.
FastCandidates(id) ==
  CASE id = "contact.full_name" -> { Null, Str(John), Str(JaneRoe) }
    [] id = "contact.email" -> { Null, Str(EmailAB) }
    [] id = "admin.prior_representation" -> { Null, Bool(FALSE), Bool(TRUE) }
    [] id = "admin.conflict_party" -> { Null, Str(JohnDoeSpaced), Str(BobRay) }
    [] id = "incident.location_jurisdiction" -> { Null, Str(Austin) }
    [] id = "liability.claimant_role" -> { Null, Str(Driver) }
    [] id = "liability.fault_admission" ->
         { Obj([status |-> Str(Yes), statement |-> Null]),
           Obj([status |-> Str(Yes), statement |-> Str(Text)]),
           Obj([status |-> Str(No), statement |-> Null]) }
    [] id = "damages.injury_details" ->
         { Obj([has_injury |-> Bool(TRUE)]),
           Obj([has_injury |-> Bool(TRUE), description |-> Str(Text)]),
           Obj([has_injury |-> Bool(FALSE), description |-> Null]) }
    [] id = "damages.hospitalization_details" ->
         { Obj([was_hospitalized |-> Bool(TRUE), duration |-> Str(Text)]),
           Obj([was_hospitalized |-> Bool(FALSE), duration |-> Null]) }
    [] id = "damages.lost_wages_details" ->
         { Obj([has_lost_wages |-> Bool(TRUE), amount |-> Num(0)]),
           Obj([has_lost_wages |-> Bool(TRUE), amount |-> Num(5)]) }
    [] id \in BooleanSlots -> { Null, Bool(TRUE) }
    [] OTHER -> { Null, Str(Text) }

\* The parsed outputs (flatData without response_text) the extraction oracle
\* may return when asked for the slots of the sequence `requested`: any
\* subset of the requested keys, each with one of its candidate values.
RECURSIVE FlatOutputs(_)
FlatOutputs(requested) ==
  IF requested = << >> THEN { EmptyObject }
  ELSE LET rest == FlatOutputs(Tail(requested))
       IN rest \cup { (Head(requested) :> v) @@ f :
                        v \in FastCandidates(Head(requested)), f \in rest }

\* The slot ids of a sequence of requested slots.
Requested(requested) == { requested[i] : i \in 1..Len(requested) }

\* Outputs that do not match the scoped schema: one key that was not
\* requested.  callClaude and callOllama are not given the schema, and
\* processTurn maps every key of flatData.
StrayOutputs(requested) ==
  { k :> v : k \in { "contact.full_name" } \ Requested(requested), v \in { Str(BobRay) } }
  \cup
  { k :> v : k \in { "admin.conflict_party" } \ Requested(requested),
             v \in { Str(JohnDoeSpaced) } }

\* A record of valid values for the contact, admin and incident questions.
FactsPatch ==
  [ contact |-> [ full_name |-> Str(JaneRoe), email |-> Str(EmailAB) ],
    admin |-> [ prior_representation |-> Bool(FALSE), conflict_party |-> Str(BobRay) ],
    incident |-> [ accident_date |-> Str(Text), accident_time |-> Str(Text),
                   location_jurisdiction |-> Str(Austin), police_report_filed |-> Bool(TRUE),
                   weather_conditions |-> Str(Text), vehicle_description |-> Str(Text) ] ]

\* A full-shape correction that fills every registry field except
\* admin.insurance_status.
FullPatch ==
  FactsPatch @@
  [ liability |-> [ fault_admission |-> Obj([status |-> Str(No), statement |-> Null]),
                    citation_issued |-> Bool(TRUE), witness_presence |-> Bool(TRUE),
                    claimant_role |-> Str(Driver) ],
    damages |-> [ injury_details |-> Obj([has_injury |-> Bool(TRUE), description |-> Str(Text)]),
                  medical_treatment |-> Bool(TRUE),
                  hospitalization_details |-> Obj([was_hospitalized |-> Bool(FALSE), duration |-> Null]),
                  lost_wages_details |-> Obj([has_lost_wages |-> Bool(TRUE), amount |-> Num(5)]) ] ]

\* The non-empty corrected_data objects the audit oracle may return.
AuditPatches ==
  { [ contact |-> [ full_name |-> Null ] ],
    [ contact |-> [ full_name |-> Str(John) ] ],
    [ contact |-> [ email |-> Str(Text) ], incident |-> Null ],
    [ admin |-> [ prior_representation |-> Bool(TRUE) ] ],
    [ admin |-> [ conflict_party |-> Str(JohnDoeSpaced) ] ],
    [ damages |-> [ injury_details |-> Obj([has_injury |-> Null]) ] ],
    [ admin |-> [ conflict_party |-> Null ] ],
    [ damages |-> [ hospitalization_details |-> Obj([duration |-> Str(Text)]) ] ],
    FullPatch }

\* The << vector, field >> keys a patch writes.
PatchKeys(data) ==
  UNION { { << v, f >> : f \in DOMAIN data[v] } :
            v \in { x \in VectorKeys : HasVector(data, x) } }

(***************************************************************************)
(* components/StateVisualizer.tsx                                          *)
(***************************************************************************)
\* isComplete(key, value)
isComplete(key, value) ==
  IF value = Null THEN FALSE
  ELSE IF key = "damages.injury_details" THEN
    IF Member(value, "has_injury") = Null THEN FALSE
    ELSE ~( Member(value, "has_injury") = Bool(TRUE)
            /\ ~Truthy(Member(value, "description")) )
  ELSE IF key = "liability.fault_admission" THEN
    IF Member(value, "status") = Null THEN FALSE
    ELSE ~( Member(value, "status") = Str(<< "Y","e","s" >>)
            /\ ~Truthy(Member(value, "statement")) )
  ELSE IF key = "damages.hospitalization_details" THEN
    IF Member(value, "was_hospitalized") = Null THEN FALSE
    ELSE ~( Member(value, "was_hospitalized") = Bool(TRUE)
            /\ ~Truthy(Member(value, "duration")) )
  ELSE IF key = "damages.lost_wages_details" THEN
    IF Member(value, "has_lost_wages") = Null THEN FALSE
    ELSE ~( Member(value, "has_lost_wages") = Bool(TRUE)
            /\ ~Truthy(Member(value, "amount")) )
  ELSE TRUE

(***************************************************************************)
(* State.                                                                  *)
(***************************************************************************)
VARIABLES
  caseFile,      \* useState<CaseFile>(INITIAL_CASE_FILE)
  messages,      \* useState<Message[]>: sequence of [role, content]
  isProcessing,  \* useState(false)
  turnCount,     \* useState(0)
  auditStatus,   \* useState<'IDLE' | 'ACTIVE'>('IDLE')
  fastCalls,     \* handleSendMessage invocations awaiting processTurn
  audits,        \* performAudit invocations awaiting auditCaseFile
  version,       \* number of patches applied to the record so far
  written,       \* slot id -> version of the patch that last wrote it
  lastPatch,     \* the patch applied by the last step, its producer, the
                 \* version of the snapshot it was computed from, the
                 \* version of the record when its producer was started,
                 \* the oracle output it was built from and the slot ids
                 \* that were requested from the oracle
  conflictSeen,  \* the conflict branch of processTurn has been taken
  evalField,     \* argument fieldId of a call of the completeness evaluator
  evalValue,     \* argument value of that call
  evalResult,    \* << >> before the call, << result >> after it
  mirrorResult,  \* << >> before the call of the visualizer's isComplete on
                 \* the same arguments, << result >> after it
  schemaSlots,   \* argument missingSlots of a call of generateScopedSchema
  schemaResult,  \* << >> before the call, << schema >> after it
  screenName,    \* argument name of a call of the conflict screener
  screenResult,  \* << >> before the call, << result >> after it
  resolveFile,   \* argument caseFile of a call of getNextMissingSlot
  resolveResult  \* << >> before the call, << result >> after it

appVars == << caseFile, messages, isProcessing, turnCount, auditStatus,
              fastCalls, audits, version, written, lastPatch, conflictSeen >>

evalVars == << evalField, evalValue, evalResult, mirrorResult >>

schemaVars == << schemaSlots, schemaResult >>

screenVars == << screenName, screenResult >>

resolveVars == << resolveFile, resolveResult >>

vars == << appVars, evalVars, schemaVars, screenVars, resolveVars >>

NoPatch == [ source |-> "none", patch |-> EmptyObject, snapVersion |-> 0, dispatched |-> 0,
             flat |-> EmptyObject, requested |-> << >> ]

\* The state of App after its first render.
AppInit ==
  /\ caseFile = INITIAL_CASE_FILE
  /\ messages = << [role |-> "assistant", content |-> "greeting"] >>
  /\ isProcessing = FALSE
  /\ turnCount = 0
  /\ auditStatus = "IDLE"
  /\ fastCalls = {}
  /\ audits = {}
  /\ version = 0
  /\ written = [id \in SlotIds |-> 0]
  /\ lastPatch = NoPatch
  /\ conflictSeen = FALSE

Init ==
  /\ AppInit
  /\ evalField = "contact.full_name"
  /\ evalValue = Null
  /\ evalResult = << >>
  /\ mirrorResult = << >>
  /\ schemaSlots = << >>
  /\ schemaResult = << >>
  /\ screenName = Null
  /\ screenResult = << >>
  /\ resolveFile = INITIAL_CASE_FILE
  /\ resolveResult = << >>

\* The versions of the slots after a patch with keys `keys` is applied as
\* patch number v.
Stamp(keys, v) ==
  [id \in SlotIds |-> IF split(id) \in keys THEN v ELSE written[id]]

\* handleSubmit without its test of isProcessing.
SendMessage_NoGuard ==
  /\ turnCount + Cardinality(fastCalls) < MaxTurns
  /\ messages' = Append(messages, [role |-> "user", content |-> "text"])
  /\ isProcessing' = TRUE
  /\ fastCalls' = fastCalls \cup
       { [ caseFile |-> caseFile, snapVersion |-> version,
           messages |-> Append(messages, [role |-> "user", content |-> "text"]) ] }
  /\ lastPatch' = NoPatch
  /\ UNCHANGED << caseFile, turnCount, auditStatus, audits, version, written,
                  conflictSeen >>

\* ChatInterface.handleSubmit -> handleSendMessage up to `await processTurn`:
\* the closure's caseFile and messages are those of the last render.
SendMessage ==
  /\ ~isProcessing
  /\ turnCount + Cardinality(fastCalls) < MaxTurns
  /\ messages' = Append(messages, [role |-> "user", content |-> "text"])
  /\ isProcessing' = TRUE
  /\ fastCalls' = fastCalls \cup
       { [ caseFile |-> caseFile, snapVersion |-> version,
           messages |-> Append(messages, [role |-> "user", content |-> "text"]) ] }
  /\ lastPatch' = NoPatch
  /\ UNCHANGED << caseFile, turnCount, auditStatus, audits, version, written,
                  conflictSeen >>

\* The turn cancelling the audits still in flight when it dispatches its own.
Continue_CancelsAudits(call, flat, data, reply, eager) ==
  LET merged == FastMerge(caseFile, data)
      botMsg == [role |-> "assistant", content |-> reply]
  IN /\ turnCount' = turnCount + 1
     /\ caseFile' = merged
     /\ version' = version + 1
     /\ written' = Stamp(PatchKeys(data), version + 1)
     /\ lastPatch' = [ source |-> "fast", patch |-> data,
                       snapVersion |-> call.snapVersion, dispatched |-> version,
                       flat |-> flat,
                       requested |-> getNextNMissingSlots(call.caseFile, SlotWindow) ]
     /\ messages' = Append(messages, botMsg)
     /\ auditStatus' = "ACTIVE"
     /\ audits' =
          { [ turn |-> turnCount + 1,
              caseFile |-> IF eager THEN merged ELSE call.caseFile,
              snapVersion |-> IF eager THEN version + 1 ELSE call.snapVersion,
              dispatched |-> version + 1,
              messages |-> Append(call.messages, botMsg) ] }
     /\ isProcessing' = FALSE
     /\ fastCalls' = fastCalls \ { call }

\* The turn dispatching an audit on every fifth turn only.
Continue_EveryFifth(call, flat, data, reply, eager) ==
  LET merged == FastMerge(caseFile, data)
      botMsg == [role |-> "assistant", content |-> reply]
  IN /\ turnCount' = turnCount + 1
     /\ caseFile' = merged
     /\ version' = version + 1
     /\ written' = Stamp(PatchKeys(data), version + 1)
     /\ lastPatch' = [ source |-> "fast", patch |-> data,
                       snapVersion |-> call.snapVersion, dispatched |-> version,
                       flat |-> flat,
                       requested |-> getNextNMissingSlots(call.caseFile, SlotWindow) ]
     /\ messages' = Append(messages, botMsg)
     /\ auditStatus' = IF (turnCount + 1) % 5 = 0 THEN "ACTIVE" ELSE auditStatus
     /\ audits' = IF (turnCount + 1) % 5 # 0 THEN audits ELSE audits \cup
          { [ turn |-> turnCount + 1,
              caseFile |-> IF eager THEN merged ELSE call.caseFile,
              snapVersion |-> IF eager THEN version + 1 ELSE call.snapVersion,
              dispatched |-> version + 1,
              messages |-> Append(call.messages, botMsg) ] }
     /\ isProcessing' = FALSE
     /\ fastCalls' = fastCalls \ { call }

\* The turn merging its patch into the record of the render the message
\* was sent from instead of the latest record.
Continue_StaleMerge(call, flat, data, reply, eager) ==
  LET merged == FastMerge(call.caseFile, data)
      botMsg == [role |-> "assistant", content |-> reply]
  IN /\ turnCount' = turnCount + 1
     /\ caseFile' = merged
     /\ version' = version + 1
     /\ written' = Stamp(PatchKeys(data), version + 1)
     /\ lastPatch' = [ source |-> "fast", patch |-> data,
                       snapVersion |-> call.snapVersion, dispatched |-> version,
                       flat |-> flat,
                       requested |-> getNextNMissingSlots(call.caseFile, SlotWindow) ]
     /\ messages' = Append(messages, botMsg)
     /\ auditStatus' = "ACTIVE"
     /\ audits' = audits \cup
          { [ turn |-> turnCount + 1,
              caseFile |-> IF eager THEN merged ELSE call.caseFile,
              snapVersion |-> IF eager THEN version + 1 ELSE call.snapVersion,
              dispatched |-> version + 1,
              messages |-> Append(call.messages, botMsg) ] }
     /\ isProcessing' = FALSE
     /\ fastCalls' = fastCalls \ { call }

\* The turn that never clears the processing flag.
Continue_KeepsProcessing(call, flat, data, reply, eager) ==
  LET merged == FastMerge(caseFile, data)
      botMsg == [role |-> "assistant", content |-> reply]
  IN /\ turnCount' = turnCount + 1
     /\ caseFile' = merged
     /\ version' = version + 1
     /\ written' = Stamp(PatchKeys(data), version + 1)
     /\ lastPatch' = [ source |-> "fast", patch |-> data,
                       snapVersion |-> call.snapVersion, dispatched |-> version,
                       flat |-> flat,
                       requested |-> getNextNMissingSlots(call.caseFile, SlotWindow) ]
     /\ messages' = Append(messages, botMsg)
     /\ auditStatus' = "ACTIVE"
     /\ audits' = audits \cup
          { [ turn |-> turnCount + 1,
              caseFile |-> IF eager THEN merged ELSE call.caseFile,
              snapVersion |-> IF eager THEN version + 1 ELSE call.snapVersion,
              dispatched |-> version + 1,
              messages |-> Append(call.messages, botMsg) ] }
     /\ isProcessing' = TRUE
     /\ fastCalls' = fastCalls \ { call }

\* The rest of handleSendMessage once processTurn has returned
\* extracted_data `data` with reply `reply`: merge, reply, dispatch the audit.
\* `flat` is the parsed oracle output `data` was built from.  `eager` is
\* whether React ran the setCaseFile updater before performAudit read
\* updatedCaseFile.
Continue(call, flat, data, reply, eager) ==
  LET merged == FastMerge(caseFile, data)
      botMsg == [role |-> "assistant", content |-> reply]
  IN /\ turnCount' = turnCount + 1
     /\ caseFile' = merged
     /\ version' = version + 1
     /\ written' = Stamp(PatchKeys(data), version + 1)
     /\ lastPatch' = [ source |-> "fast", patch |-> data,
                       snapVersion |-> call.snapVersion, dispatched |-> version,
                       flat |-> flat,
                       requested |-> getNextNMissingSlots(call.caseFile, SlotWindow) ]
     /\ messages' = Append(messages, botMsg)
     /\ auditStatus' = "ACTIVE"
     /\ audits' = audits \cup
          { [ turn |-> turnCount + 1,
              caseFile |-> IF eager THEN merged ELSE call.caseFile,
              snapVersion |-> IF eager THEN version + 1 ELSE call.snapVersion,
              dispatched |-> version + 1,
              messages |-> Append(call.messages, botMsg) ] }
     /\ isProcessing' = FALSE
     /\ fastCalls' = fastCalls \ { call }

\* processTurn resolves with a parsed oracle output.
FastResolve ==
  \E call \in fastCalls :
    \E flatData \in FlatOutputs(getNextNMissingSlots(call.caseFile, SlotWindow))
                     \cup StrayOutputs(getNextNMissingSlots(call.caseFile, SlotWindow)) :
      \E eager \in BOOLEAN :
        /\ Continue(call, flatData, processTurn(flatData),
                    IF IsConflict(flatData) THEN "conflict" ELSE "reply", eager)
        /\ conflictSeen' = (conflictSeen \/ IsConflict(flatData))

\* processTurn's catch: the oracle call failed or its output did not parse.
FastFail ==
  \E call \in fastCalls :
    \E eager \in BOOLEAN :
      /\ Continue(call, EmptyObject, EmptyObject, "error", eager)
      /\ UNCHANGED conflictSeen

\* performAudit after `await auditCaseFile` returned non-empty corrected_data.
AuditResolve ==
  \E a \in audits :
    \E patches \in AuditPatches :
      /\ caseFile' = AuditMerge(caseFile, patches)
      /\ version' = version + 1
      /\ written' = Stamp(PatchKeys(patches), version + 1)
      /\ lastPatch' = [ source |-> "audit", patch |-> patches,
                        snapVersion |-> a.snapVersion, dispatched |-> a.dispatched,
                        flat |-> EmptyObject, requested |-> << >> ]
      /\ auditStatus' = "IDLE"
      /\ audits' = audits \ { a }
      /\ UNCHANGED << messages, isProcessing, turnCount, fastCalls, conflictSeen >>

\* performAudit when auditCaseFile failed (its catch returns corrected_data {})
\* or the auditor proposed nothing.
AuditFail ==
  \E a \in audits :
    /\ auditStatus' = "IDLE"
    /\ audits' = audits \ { a }
    /\ lastPatch' = NoPatch
    /\ UNCHANGED << caseFile, messages, isProcessing, turnCount, fastCalls,
                    version, written, conflictSeen >>

Next ==
  \/ SendMessage /\ UNCHANGED << evalVars, schemaVars, screenVars, resolveVars >>
  \/ FastResolve /\ UNCHANGED << evalVars, schemaVars, screenVars, resolveVars >>
  \/ FastFail /\ UNCHANGED << evalVars, schemaVars, screenVars, resolveVars >>
  \/ AuditResolve /\ UNCHANGED << evalVars, schemaVars, screenVars, resolveVars >>
  \/ AuditFail /\ UNCHANGED << evalVars, schemaVars, screenVars, resolveVars >>

Spec == Init /\ [][Next]_vars

(***************************************************************************)
(* The application when every call of processTurn settles.  Nothing is     *)
(* assumed of the audits: one in flight may stay in flight for ever.       *)
(***************************************************************************)
\* The number of turns of this specification.
LiveTurns == 1

\* handleSendMessage up to its await, within the turns of this specification.
LiveSendMessage ==
  /\ turnCount + Cardinality(fastCalls) < LiveTurns
  /\ SendMessage

\* processTurn settles: the oracle call returns, returns malformed output or
\* fails, and handleSendMessage continues after its await.
Settle ==
  (FastResolve \/ FastFail) /\ UNCHANGED << evalVars, schemaVars, screenVars, resolveVars >>

LiveNext ==
  \/ LiveSendMessage /\ UNCHANGED << evalVars, schemaVars, screenVars, resolveVars >>
  \/ Settle
  \/ AuditResolve /\ UNCHANGED << evalVars, schemaVars, screenVars, resolveVars >>
  \/ AuditFail /\ UNCHANGED << evalVars, schemaVars, screenVars, resolveVars >>

LiveSpec == Init /\ [][LiveNext]_vars /\ WF_vars(Settle)

(***************************************************************************)
(* The completeness evaluator on its own: isFieldComplete applied to every *)
(* registry field id and every value of the bounded domain below.          *)
(***************************************************************************)
CompositeSlots == { "liability.fault_admission", "damages.injury_details",
                    "damages.hospitalization_details", "damages.lost_wages_details" }

\* The discriminator and the dependent member of a composite field.
Discriminator(id) ==
  CASE id = "liability.fault_admission" -> "status"
    [] id = "damages.injury_details" -> "has_injury"
    [] id = "damages.hospitalization_details" -> "was_hospitalized"
    [] id = "damages.lost_wages_details" -> "has_lost_wages"

Dependent(id) ==
  CASE id = "liability.fault_admission" -> "statement"
    [] id = "damages.injury_details" -> "description"
    [] id = "damages.hospitalization_details" -> "duration"
    [] id = "damages.lost_wages_details" -> "amount"

\* The affirmative value of a discriminator.
Affirmative(id) ==
  IF id = "liability.fault_admission" THEN Str(Yes) ELSE Bool(TRUE)

DiscriminatorValues(id) ==
  IF id = "liability.fault_admission"
    THEN { Undefined, Null, Str(Yes), Str(No), Str(<< "U","n","k","n","o","w","n" >>) }
    ELSE { Undefined, Null, Bool(TRUE), Bool(FALSE) }

DependentValues(id) ==
  IF id = "damages.lost_wages_details"
    THEN { Undefined, Null, Num(0), Num(5) }
    ELSE { Undefined, Null, Str(<< >>), Str(Text) }

\* An object with the members whose value is not undefined.
Composite(id, d, p) ==
  Obj([k \in { x \in { Discriminator(id), Dependent(id) } :
                 IF x = Discriminator(id) THEN d # Undefined ELSE p # Undefined } |->
         IF k = Discriminator(id) THEN d ELSE p])

EvalValues(id) ==
  IF id \in CompositeSlots
    THEN { Null } \cup { Composite(id, d, p) :
                           d \in DiscriminatorValues(id), p \in DependentValues(id) }
    ELSE { Null, Bool(TRUE), Bool(FALSE), Str(<< >>), Str(Text), Str(JaneRoe), Num(0) }

EvalInit ==
  /\ AppInit
  /\ evalField \in SlotIds
  /\ evalValue \in EvalValues(evalField)
  /\ evalResult = << >>
  /\ mirrorResult = << >>
  /\ schemaSlots = << >>
  /\ schemaResult = << >>
  /\ screenName = Null
  /\ screenResult = << >>
  /\ resolveFile = INITIAL_CASE_FILE
  /\ resolveResult = << >>

\* One call isFieldComplete(evalField, evalValue) and one call
\* isComplete(evalField, evalValue) of the visualizer.
Evaluate ==
  /\ evalResult = << >>
  /\ evalResult' = << isFieldComplete(evalField, evalValue) >>
  /\ mirrorResult' = << isComplete(evalField, evalValue) >>
  /\ UNCHANGED << appVars, evalField, evalValue, schemaVars, screenVars, resolveVars >>

EvalNext == Evaluate

EvalSpec == EvalInit /\ [][EvalNext]_vars

(***************************************************************************)
(* The schema builder on its own: generateScopedSchema applied to every    *)
(* list of at most MaxSlots slot ids, drawn from the registry ids and one  *)
(* id SCHEMA_DEFINITIONS does not define.                                  *)
(***************************************************************************)
SchemaInputs == SlotIds \cup { "contact.phone_number" }

SlotLists == UNION { [1..m -> SchemaInputs] : m \in 0..MaxSlots }

SchemaInit ==
  /\ AppInit
  /\ evalField = "contact.full_name"
  /\ evalValue = Null
  /\ evalResult = << >>
  /\ mirrorResult = << >>
  /\ schemaSlots \in SlotLists
  /\ schemaResult = << >>
  /\ screenName = Null
  /\ screenResult = << >>
  /\ resolveFile = INITIAL_CASE_FILE
  /\ resolveResult = << >>

\* One call generateScopedSchema(schemaSlots).
Generate ==
  /\ schemaResult = << >>
  /\ schemaResult' = << generateScopedSchema(schemaSlots) >>
  /\ UNCHANGED << appVars, evalVars, schemaSlots, screenVars, resolveVars >>

SchemaNext == Generate

SchemaSpec == SchemaInit /\ [][SchemaNext]_vars

(***************************************************************************)
(* The conflict screener on its own: checkConflictInDb applied to null, to *)
(* empty and blank strings and to registry entries, parts of entries and   *)
(* near misses in three letter cases and four paddings.                    *)
(***************************************************************************)
toUpperCaseChar(c) ==
  IF \E i \in 1..Len(LowerChars) : LowerChars[i] = c
    THEN UpperChars[CHOOSE i \in 1..Len(LowerChars) : LowerChars[i] = c]
    ELSE c

\* String.prototype.toUpperCase
toUpperCase(s) == [i \in 1..Len(s) |-> toUpperCaseChar(s[i])]

RegistryNames == { MOCK_CLIENT_DB[i] : i \in 1..Len(MOCK_CLIENT_DB) }

\* Names that are no registry entry: parts of entries, entries with a
\* letter changed, added or doubled blank, and an unrelated name.
NearMisses ==
  { John,
    << "D","o","e" >>,
    << "J","o","h","n"," ","D","o" >>,
    << "J","o","h","n"," "," ","D","o","e" >>,
    << "J","o","h","n","D","o","e" >>,
    << "J","o","n"," ","D","o","e" >>,
    << "T","-","8","0" >>,
    << "T","-","8","0","0","0" >>,
    << "C","y","b","e","r","d","y","n","e" >>,
    BobRay }

Cased(c, s) ==
  CASE c = "lower" -> toLowerCase(s)
    [] c = "upper" -> toUpperCase(s)
    [] OTHER -> s

Padded(p, s) ==
  CASE p = "left" -> << " " >> \o s
    [] p = "right" -> s \o << " ", " " >>
    [] p = "both" -> << " " >> \o s \o << " " >>
    [] OTHER -> s

Variants(names) ==
  { Str(Padded(p, Cased(c, n))) :
      p \in { "none", "left", "right", "both" },
      c \in { "same", "lower", "upper" },
      n \in names }

ScreenInputs ==
  { Null, Str(<< >>), Str(<< " " >>), Str(JohnDoeSpaced) }
    \cup Variants(RegistryNames) \cup Variants(NearMisses)

ScreenInit ==
  /\ AppInit
  /\ evalField = "contact.full_name"
  /\ evalValue = Null
  /\ evalResult = << >>
  /\ mirrorResult = << >>
  /\ schemaSlots = << >>
  /\ schemaResult = << >>
  /\ screenName \in ScreenInputs
  /\ screenResult = << >>
  /\ resolveFile = INITIAL_CASE_FILE
  /\ resolveResult = << >>

\* One call checkConflictInDb(screenName).
Screen ==
  /\ screenResult = << >>
  /\ screenResult' = << checkConflictInDb(screenName) >>
  /\ UNCHANGED << appVars, evalVars, schemaVars, screenName, resolveVars >>

ScreenNext == Screen

ScreenSpec == ScreenInit /\ [][ScreenNext]_vars

(***************************************************************************)
(* The Resolver on its own: getNextMissingSlot applied to records of every *)
(* status.                                                                 *)
(***************************************************************************)
\* CaseFile.status
Statuses == { "QUALIFICATION", "INTAKE", "REJECTED", "REFERRED", "CLOSED" }

\* A record in which every registry field is complete.
CompleteRecord ==
  AuditMerge(AuditMerge(INITIAL_CASE_FILE, FullPatch),
             [ admin |-> [ insurance_status |-> Bool(TRUE) ] ])

\* The record `cf` with the field `id` set to null.
Nulled(cf, id) == [cf EXCEPT ![split(id)[1]][split(id)[2]] = Null]

\* The complete record, the new record, the complete record with one field
\* missing, and the complete record of a client who is already represented.
ResolveRecords ==
  { CompleteRecord, INITIAL_CASE_FILE }
    \cup { Nulled(CompleteRecord, id) : id \in SlotIds }
    \cup { [CompleteRecord EXCEPT !.admin.prior_representation = Bool(TRUE)] }

ResolveInputs ==
  { [r EXCEPT !.status = s] : r \in ResolveRecords, s \in Statuses }

ResolveInit ==
  /\ AppInit
  /\ evalField = "contact.full_name"
  /\ evalValue = Null
  /\ evalResult = << >>
  /\ mirrorResult = << >>
  /\ schemaSlots = << >>
  /\ schemaResult = << >>
  /\ screenName = Null
  /\ screenResult = << >>
  /\ resolveFile \in ResolveInputs
  /\ resolveResult = << >>

\* One call getNextMissingSlot(resolveFile).
Resolve ==
  /\ resolveResult = << >>
  /\ resolveResult' = << getNextMissingSlot(resolveFile) >>
  /\ UNCHANGED << appVars, evalVars, schemaVars, screenVars, resolveFile >>

ResolveNext == Resolve

ResolveSpec == ResolveInit /\ [][ResolveNext]_vars

(***************************************************************************)
(* Properties.                                                             *)
(***************************************************************************)
Resolved == getNextMissingSlot(caseFile)

IsComplete(cf, i) == isFieldComplete(INTAKE_STEPS[i].id, FieldValue(cf, INTAKE_STEPS[i].id))

\* C1: an audit patch does not change a field that holds a value written
\* after the audit was started: when the audit of turn k resolves after turn
\* k+1 wrote field F, F keeps the value turn k+1 wrote.
C1_NoStaleOverwrite ==
  [][ lastPatch'.source = "audit" =>
        \A id \in SlotIds :
          (written[id] > lastPatch'.dispatched /\ FieldValue(caseFile, id) # Null)
            => FieldValue(caseFile', id) = FieldValue(caseFile, id) ]_vars

\* C2: when the Resolver returns a field id, that registry entry is
\* incomplete and every entry before it in INTAKE_STEPS is complete.
C2_LowestIncomplete ==
  Resolved \in SlotIds =>
    \E i \in 1..Len(INTAKE_STEPS) :
      /\ INTAKE_STEPS[i].id = Resolved
      /\ ~IsComplete(caseFile, i)
      /\ \A j \in 1..(i - 1) : IsComplete(caseFile, j)

\* A record in which an entry after the Resolver's result is complete.
C2_Witness ==
  /\ Resolved = "contact.full_name"
  /\ IsComplete(caseFile, 2)
  /\ ~IsComplete(caseFile, 3)

\* C3: prior_representation = true makes the Resolver return
\* REJECT_PRIOR_REP whatever the status and the other fields are.
C3_KillSwitch ==
  caseFile.admin.prior_representation = Bool(TRUE) => Resolved = "REJECT_PRIOR_REP"

\* prior_representation is true in a record whose status is REJECTED.
C3_Witness ==
  /\ caseFile.admin.prior_representation = Bool(TRUE)
  /\ caseFile.status = "REJECTED"
  /\ Resolved = "REJECT_PRIOR_REP"

\* C4 as stated: once the conflict branch was taken, the Resolver returns
\* REJECTED_GENERIC in every later state.
C4_AlwaysRejectedGeneric ==
  conflictSeen => Resolved = "REJECTED_GENERIC"

\* C4 amended: once the conflict branch was taken, the status is REJECTED in
\* every later state and the Resolver returns REJECTED_GENERIC unless
\* prior_representation is true, when Gate 1 makes it REJECT_PRIOR_REP.
C4_ConflictTerminal ==
  conflictSeen =>
    /\ caseFile.status = "REJECTED"
    /\ Resolved = IF caseFile.admin.prior_representation = Bool(TRUE)
                    THEN "REJECT_PRIOR_REP" ELSE "REJECTED_GENERIC"

\* An audit patch was applied after the conflict was detected.
C4_Witness ==
  /\ conflictSeen
  /\ lastPatch.source = "audit"
  /\ lastPatch.patch = FullPatch
  /\ Resolved = "REJECTED_GENERIC"

\* C5: a merge, of either producer, gives every key the patch names the
\* patch's value and leaves every other key of every vector as it was.
C5_MergeFrame ==
  [][ lastPatch'.source \in { "fast", "audit" } =>
        \A v \in VectorKeys :
          /\ DOMAIN caseFile'[v] = DOMAIN caseFile[v]
          /\ \A f \in DOMAIN caseFile[v] :
               caseFile'[v][f] =
                 IF HasVector(lastPatch'.patch, v) /\ f \in DOMAIN lastPatch'.patch[v]
                   THEN lastPatch'.patch[v][f]
                   ELSE caseFile[v][f] ]_vars

\* An audit patch {contact: {email}} was merged into a record with
\* contact.full_name set.
C5_Witness ==
  /\ lastPatch.source = "audit"
  /\ HasVector(lastPatch.patch, "contact")
  /\ DOMAIN lastPatch.patch.contact = { "email" }
  /\ caseFile.contact.email = Str(Text)
  /\ caseFile.contact.full_name = Str(JaneRoe)

\* C6: every value stored in the record passes its field's validator.
C6_StoredValuesValid ==
  \A id \in SlotIds : validateField(id, FieldValue(caseFile, id))

\* C7: a composite value whose discriminator is null is incomplete,
\* whatever its dependent is.
C7_NullDiscriminator ==
  ( /\ evalResult # << >>
    /\ evalField \in CompositeSlots
    /\ Member(evalValue, Discriminator(evalField)) = Null )
  => evalResult = << FALSE >>

\* The evaluator was called on a hospitalization value with a null
\* discriminator and a dependent that is set.
C7_Witness ==
  /\ evalResult = << FALSE >>
  /\ evalField = "damages.hospitalization_details"
  /\ Member(evalValue, "was_hospitalized") = Null
  /\ Member(evalValue, "duration") = Str(Text)

\* The dependent is null or the empty string.
EmptyDependent(v) == v = Null \/ v = Str(<< >>)

\* C8: a composite value with an affirmative discriminator and an empty
\* dependent is incomplete.
C8_AffirmativeNeedsDependent ==
  ( /\ evalResult # << >>
    /\ evalField \in CompositeSlots
    /\ Member(evalValue, Discriminator(evalField)) = Affirmative(evalField)
    /\ EmptyDependent(Member(evalValue, Dependent(evalField))) )
  => evalResult = << FALSE >>

\* The evaluator was called on an injury value with has_injury true and an
\* empty description.
C8_Witness ==
  /\ evalResult = << FALSE >>
  /\ evalField = "damages.injury_details"
  /\ Member(evalValue, "has_injury") = Bool(TRUE)
  /\ Member(evalValue, "description") = Str(<< >>)

\* The records of the end-to-end trace.
TraceNamed == FastMerge(INITIAL_CASE_FILE, [contact |-> [full_name |-> Str(JaneRoe)]])

TraceRepresented ==
  FastMerge(TraceNamed, [admin |-> [prior_representation |-> Bool(TRUE)]])

\* C10: the Resolver returns contact.full_name on the initial record,
\* contact.email once {contact: {full_name: "Jane Roe"}} is merged into it,
\* and REJECT_PRIOR_REP once prior_representation is then set to true.
C10_EndToEnd ==
  /\ Resolved = "contact.full_name"
  /\ [][ /\ ( /\ caseFile = INITIAL_CASE_FILE
              /\ lastPatch'.source = "fast"
              /\ lastPatch'.patch = [contact |-> [full_name |-> Str(JaneRoe)]] )
            => ( caseFile' = TraceNamed
                 /\ getNextMissingSlot(caseFile') = "contact.email" )
         /\ ( /\ caseFile = TraceNamed
              /\ lastPatch'.source = "fast"
              /\ lastPatch'.patch = [admin |-> [prior_representation |-> Bool(TRUE)]] )
            => ( caseFile' = TraceRepresented
                 /\ getNextMissingSlot(caseFile') = "REJECT_PRIOR_REP" ) ]_vars

\* The third record of the trace, reached by its two patches.
C10_Witness ==
  /\ caseFile = TraceRepresented
  /\ version = 2
  /\ written["contact.full_name"] = 1
  /\ written["admin.prior_representation"] = 2
  /\ lastPatch.source = "fast"
  /\ lastPatch.patch = [admin |-> [prior_representation |-> Bool(TRUE)]]
  /\ caseFile.incident.accident_date = Null

\* The index of a slot id in INTAKE_STEPS.
StepIndex(id) == CHOOSE i \in 1..Len(INTAKE_STEPS) : INTAKE_STEPS[i].id = id

\* The slot ids of the last oracle output whose candidate failed validateField.
Dropped(p) == { F \in (DOMAIN p.flat) \cap SlotIds : ~validateField(F, p.flat[F]) }

\* C11 as stated: a field whose candidate failed validation keeps its prior
\* value through the fast-path turn, and when it was the Resolver's result
\* before the turn it is the Resolver's result after the turn.
C11_DroppedAndResurfaced ==
  [][ lastPatch'.source = "fast" =>
        \A F \in Dropped(lastPatch') :
          /\ FieldValue(caseFile', F) = FieldValue(caseFile, F)
          /\ getNextMissingSlot(caseFile) = F => getNextMissingSlot(caseFile') = F ]_vars

\* C11 amended: a field whose candidate failed validation keeps its prior
\* value through the fast-path turn, and when it was the Resolver's result
\* before the turn it is the Resolver's result after the turn unless the
\* turn's patch fired a gate (prior_representation true, status REJECTED)
\* or left an earlier registry entry incomplete.
C11_DroppedKeepsPrior ==
  [][ lastPatch'.source = "fast" =>
        \A F \in Dropped(lastPatch') :
          /\ FieldValue(caseFile', F) = FieldValue(caseFile, F)
          /\ ( /\ getNextMissingSlot(caseFile) = F
               /\ caseFile'.admin.prior_representation # Bool(TRUE)
               /\ caseFile'.status # "REJECTED"
               /\ \A j \in 1..(StepIndex(F) - 1) : IsComplete(caseFile', j) )
             => getNextMissingSlot(caseFile') = F ]_vars

\* The first turn's oracle output proposed "John" for contact.full_name and
\* an email address: the name was dropped, the email stored, and the
\* Resolver asks for the name again.
C11_Witness ==
  /\ version = 1
  /\ lastPatch.source = "fast"
  /\ "contact.full_name" \in Dropped(lastPatch)
  /\ lastPatch.flat["contact.full_name"] = Str(John)
  /\ caseFile.contact.full_name = Null
  /\ caseFile.contact.email = Str(EmailAB)
  /\ Resolved = "contact.full_name"

\* C12: a turn whose extraction failed (call failed or output unparseable)
\* has an empty patch and leaves the record as it was, and an audit that
\* failed leaves the record as it was.
C12_FailuresLeaveRecord ==
  [][ /\ ( /\ Len(messages') > Len(messages)
           /\ messages'[Len(messages')].content = "error" )
         => ( lastPatch'.patch = EmptyObject /\ caseFile' = caseFile )
      /\ ( /\ Cardinality(audits') < Cardinality(audits)
           /\ lastPatch'.source = "none" )
         => caseFile' = caseFile ]_vars

\* The second turn failed on a record that holds the first turn's name.
C12_Witness ==
  /\ messages[Len(messages)].content = "error"
  /\ lastPatch.source = "fast"
  /\ version = 2
  /\ caseFile.contact.full_name = Str(JaneRoe)
  /\ caseFile.status = "QUALIFICATION"

\* C13: a fast-path merge changes no field whose id is outside the slot ids
\* that were requested from the oracle for that turn.
C13_PatchScopedToRequested ==
  [][ lastPatch'.source = "fast" =>
        \A id \in SlotIds \ Requested(lastPatch'.requested) :
          FieldValue(caseFile', id) = FieldValue(caseFile, id) ]_vars

\* C14: after a turn whose patch carries the conflict rejection, the record
\* has status REJECTED and a rejection_reason.
C14_ConflictSetsReason ==
  ( lastPatch.source = "fast" /\ "status" \in DOMAIN lastPatch.patch )
  => ( caseFile.status = "REJECTED" /\ caseFile.rejection_reason.t = "string" )

\* C15: once the status is REJECTED no step changes it.
C15_RejectedTerminal ==
  [][ caseFile.status = "REJECTED" => caseFile'.status = "REJECTED" ]_vars

\* A fast-path patch with a field and without a status was merged into a
\* record whose status was REJECTED before the turn's message was sent.
C15_Witness ==
  /\ caseFile.status = "REJECTED"
  /\ lastPatch.source = "fast"
  /\ "status" \notin DOMAIN lastPatch.patch
  /\ PatchKeys(lastPatch.patch) # {}
  /\ version >= 2

\* C16: once the Resolver returned REJECT_PRIOR_REP, it returns
\* REJECT_PRIOR_REP after every later step.
C16_PriorRepIrreversible ==
  [][ getNextMissingSlot(caseFile) = "REJECT_PRIOR_REP"
        => getNextMissingSlot(caseFile') = "REJECT_PRIOR_REP" ]_vars

\* Gate 1 and Gate 2 of the Resolver.
GateOne(cf) == cf.admin.prior_representation = Bool(TRUE)
GateTwo(cf) == cf.status = "REJECTED"

\* C17: the Resolver returns COMPLETE exactly when neither gate fires and
\* every registry entry is complete.
C17_CompleteIffAllComplete ==
  Resolved = "COMPLETE" <=>
    ( /\ ~GateOne(caseFile)
      /\ ~GateTwo(caseFile)
      /\ \A i \in 1..Len(INTAKE_STEPS) : IsComplete(caseFile, i) )

\* The last registry entry was filled by the second turn, after an audit
\* had filled the others.
C17_Witness ==
  /\ Resolved = "COMPLETE"
  /\ lastPatch.source = "fast"
  /\ lastPatch.patch = [admin |-> [insurance_status |-> Bool(TRUE)]]
  /\ written["contact.full_name"] < written["admin.insurance_status"]

\* C18: a record with status REJECTED and prior_representation not true
\* resolves to REJECTED_GENERIC whatever fields are complete, a record with
\* both gates open to REJECT_PRIOR_REP, and the scan decides only when
\* neither gate fires.
C18_GateTwoAndOrder ==
  /\ (GateTwo(caseFile) /\ ~GateOne(caseFile)) => Resolved = "REJECTED_GENERIC"
  /\ (GateTwo(caseFile) /\ GateOne(caseFile)) => Resolved = "REJECT_PRIOR_REP"
  /\ Resolved \in SlotIds \cup { "COMPLETE" } => (~GateOne(caseFile) /\ ~GateTwo(caseFile))

\* A rejected record in which the scan would have returned contact.full_name.
C18_Witness ==
  /\ GateTwo(caseFile)
  /\ caseFile.admin.prior_representation = Bool(FALSE)
  /\ ~IsComplete(caseFile, 1)
  /\ IsComplete(caseFile, 4)
  /\ Resolved = "REJECTED_GENERIC"

\* The indices of the incomplete registry entries of a record.
Incomplete(cf) == { i \in 1..Len(INTAKE_STEPS) : ~IsComplete(cf, i) }

\* The window sizes nextSlots is tried with.
WindowSizes == 0..(SlotWindow + 1)

\* The ids of the n smallest indices of the set `inc`, in increasing order.
RECURSIVE FirstOf(_, _)
FirstOf(inc, n) ==
  IF n = 0 \/ inc = {} THEN << >>
  ELSE LET m == CHOOSE i \in inc : \A j \in inc : i <= j
       IN << INTAKE_STEPS[m].id >> \o FirstOf(inc \ { m }, n - 1)

\* C19: nextSlots(record, n) is the first min(n, k) incomplete registry
\* entries in registry order, k being the number of incomplete entries, and
\* its first entry is the field id the Resolver's scan returns.
C19_NextSlots ==
  LET inc == Incomplete(caseFile)
      k == Cardinality(inc)
      scan == ScanFrom(caseFile, 1)
  IN \A n \in WindowSizes :
       LET r == getNextNMissingSlots(caseFile, n)
       IN /\ Len(r) = IF n < k THEN n ELSE k
          /\ r = FirstOf(inc, n)
          /\ (n > 0 /\ k > 0) => r[1] = INTAKE_STEPS[scan].id
          /\ (n > 0 /\ k = 0) => scan = 0

\* A record with complete entries between the incomplete ones and more
\* incomplete entries than the window holds.
C19_Witness ==
  /\ getNextNMissingSlots(caseFile, SlotWindow) =
       << "contact.email", "admin.conflict_party", "incident.accident_date" >>
  /\ IsComplete(caseFile, 1)
  /\ IsComplete(caseFile, 3)
  /\ ~IsComplete(caseFile, 6)

\* C20: for a list of registry slot ids, the schema is a flat object whose
\* property keys are the requested ids and response_text, whose required
\* list names exactly those keys, and whose slot properties are nullable.
C20_ScopedSchema ==
  ( schemaResult # << >> /\ Requested(schemaSlots) \subseteq SlotIds ) =>
    LET schema == schemaResult[1]
    IN /\ schema.type = "OBJECT"
       /\ DOMAIN schema.properties = Requested(schemaSlots) \cup { "response_text" }
       /\ Requested(schema.required) = DOMAIN schema.properties
       /\ \A k \in Requested(schemaSlots) :
            /\ "nullable" \in DOMAIN schema.properties[k]
            /\ schema.properties[k].nullable = TRUE

\* The schema of the first turn's three slots.
C20_Witness ==
  /\ schemaSlots = << "contact.full_name", "contact.email", "admin.prior_representation" >>
  /\ schemaResult # << >>
  /\ schemaResult[1].required =
       << "response_text", "contact.full_name", "contact.email", "admin.prior_representation" >>
  /\ schemaResult[1].properties["admin.prior_representation"].type = "BOOLEAN"

\* The member k of a stored composite, an absent member reading as null.
Stored(v, k) == IF Member(v, k) = Undefined THEN Null ELSE Member(v, k)

\* C21: an audit patch that names only the discriminator of a composite
\* field changes that member and leaves the composite's dependent member at
\* its stored value.
C21_AuditCorrectsMemberwise ==
  [][ lastPatch'.source = "audit" =>
        \A id \in CompositeSlots :
          ( /\ split(id) \in PatchKeys(lastPatch'.patch)
            /\ lastPatch'.patch[split(id)[1]][split(id)[2]].t = "object"
            /\ DOMAIN lastPatch'.patch[split(id)[1]][split(id)[2]].o = { Discriminator(id) } )
          => Stored(FieldValue(caseFile', id), Dependent(id))
               = Stored(FieldValue(caseFile, id), Dependent(id)) ]_vars

\* C22: a fast-path turn ends with the processing flag cleared and its audit
\* in flight beside the audits dispatched earlier, and an audit leaves the
\* set of audits in flight only by resolving or failing itself, one at a
\* time; no step of a turn removes or replaces one.
C22_AuditNeitherAwaitedNorCancelled ==
  [][ /\ lastPatch'.source = "fast" =>
           /\ ~isProcessing'
           /\ audits \subseteq audits'
           /\ \E a \in audits' \ audits : a.turn = turnCount'
      /\ ~(audits \subseteq audits') =>
           /\ Cardinality(audits \ audits') = 1
           /\ audits' \subseteq audits
           /\ lastPatch'.source \in { "audit", "none" }
           /\ UNCHANGED << fastCalls, isProcessing, turnCount >> ]_vars

\* The audit of the first turn resolved with a correction after the second
\* turn's patch was applied.
C22_Witness ==
  /\ lastPatch.source = "audit"
  /\ lastPatch.dispatched = 1
  /\ version = 3
  /\ turnCount = 2
  /\ written["contact.email"] = 2
  /\ lastPatch.patch = [ contact |-> [ full_name |-> Str(John) ] ]
  /\ caseFile.contact.full_name = Str(John)
  /\ caseFile.contact.email = Str(EmailAB)

\* C23: a name with one token is rejected and a name with two tokens is
\* accepted: "John" fails and "John Doe" passes validateField, and a fast
\* turn stores the name the oracle proposed exactly when it has two tokens
\* or more.
C23_NameNeedsTwoTokens ==
  /\ ~validateField("contact.full_name", Str(John))
  /\ validateField("contact.full_name", Str(MOCK_CLIENT_DB[1]))
  /\ ( /\ lastPatch.source = "fast"
       /\ "contact.full_name" \in DOMAIN lastPatch.flat
       /\ lastPatch.flat["contact.full_name"].t = "string" )
     => ( << "contact", "full_name" >> \in PatchKeys(lastPatch.patch)
            <=> TokenCount(lastPatch.flat["contact.full_name"].s) >= 2 )

\* The first turn's oracle output proposed "Jane Roe" and the name was stored.
C23_Witness ==
  /\ version = 1
  /\ lastPatch.source = "fast"
  /\ "contact.full_name" \in DOMAIN lastPatch.flat
  /\ lastPatch.flat["contact.full_name"] = Str(JaneRoe)
  /\ caseFile.contact.full_name = Str(JaneRoe)
  /\ DOMAIN lastPatch.flat = { "contact.full_name" }

\* The inputs the screener has to match: a registry entry in any of the
\* three letter cases under any of the four paddings.
Matching == Variants(RegistryNames) \cup { Str(JohnDoeSpaced) }

\* C24: the screener returns true exactly for a name that is a registry
\* entry up to surrounding blanks and letter case; null, the empty and the
\* blank string, parts of entries and near misses give false.
C24_ExactNormalizedMatch ==
  screenResult # << >> => screenResult = << screenName \in Matching >>

\* The screener matched "John Doe" given in mixed case between blanks.
C24_Witness ==
  /\ screenName = Str(JohnDoeSpaced)
  /\ screenResult = << TRUE >>

\* The record with every registry field before lost_wages_details complete.
AllButWages == AuditMerge(INITIAL_CASE_FILE, FullPatch)

\* C25: a lost-wages value with has_lost_wages true and amount 0 or null is
\* incomplete, and in a record whose earlier fields are complete the
\* Resolver returns damages.lost_wages_details for it; with a positive
\* amount the value is complete.
C25_ZeroAmountIsMissing ==
  ( /\ evalResult # << >>
    /\ evalField = "damages.lost_wages_details"
    /\ Member(evalValue, "has_lost_wages") = Bool(TRUE) )
  => /\ Member(evalValue, "amount") \in { Num(0), Null }
          => /\ evalResult = << FALSE >>
             /\ getNextMissingSlot(
                  [AllButWages EXCEPT !.damages.lost_wages_details = evalValue])
                  = "damages.lost_wages_details"
     /\ Member(evalValue, "amount") = Num(5) => evalResult = << TRUE >>

\* The evaluator was called on {has_lost_wages: true, amount: 0}.
C25_Witness ==
  /\ evalField = "damages.lost_wages_details"
  /\ evalValue = Obj([has_lost_wages |-> Bool(TRUE), amount |-> Num(0)])
  /\ evalResult = << FALSE >>

C27_NoLostUpdate ==
  [][ ( /\ lastPatch.source \in { "fast", "audit" }
        /\ lastPatch'.source \in { "fast", "audit" }
        /\ lastPatch'.source # lastPatch.source
        /\ PatchKeys(lastPatch.patch) \cap PatchKeys(lastPatch'.patch) = {} )
      => /\ \A k \in PatchKeys(lastPatch.patch) :
              caseFile'[k[1]][k[2]] = lastPatch.patch[k[1]][k[2]]
         /\ \A k \in PatchKeys(lastPatch'.patch) :
              caseFile'[k[1]][k[2]] = lastPatch'.patch[k[1]][k[2]] ]_vars

\* An audit stored an email address while the second turn's call was
\* awaiting its oracle, and the turn's patch then stored the name: the
\* record holds both.
C27_Witness ==
  /\ lastPatch.source = "fast"
  /\ lastPatch.snapVersion < lastPatch.dispatched
  /\ lastPatch.patch = [ contact |-> [ full_name |-> Str(JaneRoe) ] ]
  /\ written["contact.email"] = lastPatch.dispatched
  /\ caseFile.contact.email = Str(Text)
  /\ caseFile.contact.full_name = Str(JaneRoe)

\* C28: the snapshot handed to the audit a turn dispatches is the record
\* with the turn's patch applied and the transcript with the turn's user
\* message and reply.
C28_AuditSnapshotAfterPatch ==
  [][ lastPatch'.source = "fast" =>
        \A a \in audits' \ audits :
          /\ a.caseFile = caseFile'
          /\ a.messages = messages' ]_vars

\* The registry entries before id that are incomplete in cf.
EarlierIncomplete(cf, id) == { i \in Incomplete(cf) : i < StepIndex(id) }

\* An audit step sets the complete field id back to null and no gate fires.
Invalidated(id) ==
  /\ lastPatch'.source = "audit"
  /\ split(id) \in PatchKeys(lastPatch'.patch)
  /\ lastPatch'.patch[split(id)[1]][split(id)[2]] = Null
  /\ IsComplete(caseFile, StepIndex(id))
  /\ ~GateOne(caseFile')
  /\ ~GateTwo(caseFile')

C30_ConflictImpliesRejected ==
  ( /\ Truthy(caseFile.admin.conflict_party)
    /\ checkConflictInDb(caseFile.admin.conflict_party) )
  => caseFile.status = "REJECTED"


\* The value is empty: null, absent, the empty string or zero.
Empty(v) == v \in { Null, Undefined, Str(<< >>), Num(0) }

\* The reference predicate: a null value is incomplete; any other value of a
\* non-composite field is complete; any other value of a composite field is
\* complete iff its discriminator is not null and, when the discriminator is
\* affirmative, its dependent is not empty.
ReferenceComplete(id, v) ==
  /\ v # Null
  /\ id \in CompositeSlots =>
       /\ Member(v, Discriminator(id)) # Null
       /\ Member(v, Discriminator(id)) = Affirmative(id) =>
            ~Empty(Member(v, Dependent(id)))

\* C31: on every registry field id and every value, isFieldComplete returns
\* what the reference predicate returns: non-null for a non-composite field
\* (false and the empty string are complete), discriminator non-null and
\* (affirmative => dependent non-empty) for a composite field.  The
\* evaluator reports a lost-wages value complete whose amount is absent.
C31_MatchesReference ==
  evalResult # << >> => evalResult[1] = ReferenceComplete(evalField, evalValue)

\* C32: a composite field the evaluator reports complete has a discriminator
\* that is present and not null.
C32_CompleteHasDiscriminator ==
  \A id \in CompositeSlots :
    isFieldComplete(id, FieldValue(caseFile, id)) =>
      Member(FieldValue(caseFile, id), Discriminator(id)) \notin { Null, Undefined }

\* C33: on every registry field id and every value the visualizer's
\* isComplete returns what isFieldComplete returns.
C33_MirrorAgrees ==
  evalResult # << >> => mirrorResult = evalResult

\* The registry ids of the incident questions.
IncidentSlots == { id \in SlotIds : split(id)[1] = "incident" }

\* C34: once a counter-party name that matches no registry entry is recorded
\* and the Resolver asks an incident question, the status is INTAKE.
C34_IntakeBeforeIncident ==
  ( /\ Truthy(caseFile.admin.conflict_party)
    /\ ~checkConflictInDb(caseFile.admin.conflict_party)
    /\ getNextMissingSlot(caseFile) \in IncidentSlots )
  => caseFile.status = "INTAKE"

\* The record `cf` with status `s`.
WithStatus(cf, s) == [cf EXCEPT !.status = s]

\* C35: the Resolver's result is a registry field id, REJECT_PRIOR_REP,
\* REJECTED_GENERIC or COMPLETE, and for a record whose status is REFERRED
\* or CLOSED it is the result for the same record in QUALIFICATION and in
\* INTAKE.
C35_ResultRange ==
  resolveResult # << >> =>
    /\ resolveResult[1] \in SlotIds \cup { "REJECT_PRIOR_REP", "REJECTED_GENERIC", "COMPLETE" }
    /\ resolveFile.status \in { "REFERRED", "CLOSED" } =>
         /\ resolveResult[1] = getNextMissingSlot(WithStatus(resolveFile, "QUALIFICATION"))
         /\ resolveResult[1] = getNextMissingSlot(WithStatus(resolveFile, "INTAKE"))

\* The Resolver returned the damages question for a CLOSED record.
C35_Witness ==
  /\ resolveFile.status = "CLOSED"
  /\ resolveResult = << "damages.injury_details" >>

\* The last message of the transcript has role `r`.
LastIs(r) == messages[Len(messages)].role = r

\* Every user message but a pending last one is followed by one assistant
\* message, and a user message is last only while the turn is processed.
Alternates ==
  \A i \in 1..Len(messages) :
    messages[i].role = "user" =>
      IF i = Len(messages) THEN isProcessing
      ELSE /\ messages[i + 1].role = "assistant"
           /\ i + 2 <= Len(messages) => messages[i + 2].role = "user"

C37_OneTurnInFlight ==
  /\ [](Cardinality(fastCalls) <= 1 /\ (isProcessing <=> fastCalls # {}))
  /\ [][ /\ (fastCalls' \ fastCalls) # {} =>
              /\ fastCalls = {}
              /\ ~isProcessing
              /\ \A c \in fastCalls' : c.snapVersion = version /\ c.caseFile = caseFile
         /\ lastPatch'.source = "fast" =>
              /\ fastCalls' = {}
              /\ lastPatch'.snapVersion < version' ]_vars

\* The second turn's patch was applied; its snapshot was taken after the
\* first turn's patch.
C37_Witness ==
  /\ turnCount = 2
  /\ lastPatch.source = "fast"
  /\ lastPatch.snapVersion >= 1
  /\ fastCalls = {}

\* C38: auditStatus is ACTIVE exactly when an audit is in flight.
C38_StatusReflectsAudits ==
  auditStatus = "ACTIVE" <=> audits # {}

====
